---- MODULE Spec2Model ----
(***************************************************************************)
(* A model of the resilience bridge of examples/hybrid-bridge.py:          *)
(* RateLimiter, CircuitBreaker, the result cache, AgentOSClient's metrics  *)
(* buffer and HybridAgentBridge.execute, run by concurrent asyncio tasks.  *)
(*                                                                         *)
(* Time.  time.time() is modelled by the clock `now`, counted in ticks of  *)
(* 1/Res second.  Token counts are kept in units of 1/Res token, so that   *)
(* elapsed * rate is exact: a bucket of capacity C holds C * Res units and *)
(* acquire(n) needs n * Res units.  Durations (timeout, cache_ttl) are in  *)
(* ticks.                                                                  *)
(*                                                                         *)
(* Atomicity.  asyncio tasks interleave only where a coroutine really      *)
(* suspends.  RateLimiter.acquire holds no await, and neither does the     *)
(* bookkeeping of CircuitBreaker.call or HybridAgentBridge.execute; the    *)
(* only suspension is `await func(...)` (hybrid-bridge.py:146), the        *)
(* backend handler.  So a call is two atomic steps: up to the backend      *)
(* call, and from the backend's completion to the return.                  *)
(*                                                                         *)
(* Specifications.  SpecLimiter: acquire calls on one RateLimiter.         *)
(* SpecBreaker: concurrent tasks calling one CircuitBreaker.  SpecCache:   *)
(* the two cache helpers called directly.  Spec: concurrent tasks calling  *)
(* execute on one HybridAgentBridge.  SpecFacade: the same, with           *)
(* get_metrics and health_check called in between.  SpecUnchecked: a       *)
(* RateLimiter built from any capacity.  SpecClock: a RateLimiter under a  *)
(* wall clock that can be set back.  SpecRecovery: the breaker once the    *)
(* backend has recovered, with fairness.  SpecMetrics: record_metric       *)
(* called directly.                                                        *)
(***************************************************************************)
EXTENDS Integers, Sequences, FiniteSets

\* ---------------------------------------------------------------- bounds
Res == 2
MaxTime == 3
MaxCapacity == 2
MaxRate == 1
MaxCost == 2
MaxThreshold == 3
MaxTimeout == 2
MaxCalls == 5
BridgeCalls == 3
BridgeThreshold == 2
BridgeTimeout == 1
BridgeTTL == 2
BridgeTime == 2
FacadeCalls == 2
FacadeTime == 1
MaxRecords == 11

\* ------------------------------------------------------ program constants
FlushSize == 10
BackendConfidence == 95

VARIABLES
    now,              \* time.time(), in ticks
    rate,             \* RateLimiter.rate, tokens per second
    capacity,         \* RateLimiter.capacity, tokens
    tokens,           \* RateLimiter.tokens, in 1/Res token
    last_update,      \* RateLimiter.last_update
    acq,              \* the last acquire call: its cost and its return value
    maxcost,          \* the largest cost an acquire call has asked for
    failure_threshold,\* CircuitBreaker.failure_threshold
    timeout,          \* CircuitBreaker.timeout, in ticks
    failures,         \* CircuitBreaker.failures
    last_failure,     \* CircuitBreaker.last_failure: <<>> is None, <<t>> a timestamp
    state,            \* CircuitBreaker.state
    pc,               \* per caller: "idle", or "backend" while suspended at `await func`
    admitted,         \* per caller: the breaker state under which its call reached the backend
    ev,               \* the last call event: who, and how the call ended
    streak,           \* number of calls through the breaker that failed in a row, most recently
    invocations,      \* number of times the backend operation was invoked
    calls,            \* number of calls started, to bound the run
    granted,          \* tokens handed out by direct acquire calls so far
    burst,            \* tokens handed out by direct acquire calls since the clock last moved
    refill,           \* the wait that ended an empty bucket, and whether only acquire(1) followed
    hash,             \* hash() on message contents, fixed for the life of the process
    cache,            \* HybridAgentBridge.cache: key -> [response, timestamp]
    cache_ttl,        \* HybridAgentBridge.cache_ttl, in ticks
    metrics_buffer,   \* AgentOSClient.metrics_buffer, the names of the samples held
    trace_id,         \* AgentOSClient.trace_id: <<>> is None
    request_count,    \* HybridAgentBridge.request_count
    error_count,      \* HybridAgentBridge.error_count
    total_latency,    \* HybridAgentBridge.total_latency, in ticks
    msg,              \* per caller: the message of its execute call in flight
    start_time,       \* per caller: start_time of its execute call in flight
    got,              \* the last call of a cache helper and what it returned
    owner,            \* per cache key, the user_id whose request its entry answers
    report            \* what the last call of get_metrics or health_check returned

vars == <<now, rate, capacity, tokens, last_update, acq, maxcost,
          failure_threshold, timeout, failures, last_failure, state,
          pc, admitted, ev, streak, invocations, calls, granted, burst, refill,
          hash, cache, owner, cache_ttl, metrics_buffer, trace_id,
          request_count, error_count, total_latency, msg, start_time, got, report>>

limiterVars == <<rate, capacity, tokens, last_update, acq>>
ghostVars == <<maxcost, granted, burst, streak, refill>>
breakerVars == <<failure_threshold, timeout, failures, last_failure, state>>
callerVars == <<pc, admitted, ev, invocations>>
bridgeVars == <<hash, cache, owner, cache_ttl, metrics_buffer, trace_id,
                request_count, error_count, total_latency, msg, start_time, got, report>>

\* The tasks that call concurrently; each runs one call at a time.
Callers == {1, 2}

Min2(a, b) == IF a <= b THEN a ELSE b

None == <<>>

\* -------------------------------------------------------------- the clock
\* Wall-clock time moves forward between two atomic steps.
Tick ==
    /\ now < MaxTime
    /\ now' = now + 1
    /\ burst' = 0
    /\ UNCHANGED <<limiterVars, breakerVars, callerVars, calls, maxcost, granted, streak,
                   refill, bridgeVars>>

\* ----------------------------------------------------------- RateLimiter
\* __init__: tokens = capacity, last_update = time.time().
NoAcquire == [cost |-> 0, ok |-> FALSE]

RateLimiterInit(r, c) ==
    /\ rate = r
    /\ capacity = c
    /\ tokens = c * Res
    /\ last_update = now
    /\ acq = NoAcquire

\* Mutant: only whole seconds of waiting refill the bucket.
Elapsed_Whole == ((now - last_update) \div Res) * Res

\* elapsed = now - self.last_update
Elapsed == now - last_update

\* Mutant: the refill is not capped at the capacity.
Refilled_Uncapped == tokens + Elapsed * rate

\* min(self.capacity, self.tokens + elapsed * self.rate)
Refilled == Min2(capacity * Res, tokens + Elapsed * rate)

\* Mutant: a granted acquire takes nothing out of the bucket.
TokensAfter_Free(cost) == Refilled

\* Mutant: every call is admitted.
Grants_Always(cost) == TRUE

\* Mutant: a bucket holding exactly the cost is refused.
Grants_Strict(cost) == Refilled > cost * Res

\* if self.tokens >= tokens
Grants(cost) == Refilled >= cost * Res

\* self.tokens after the call: tokens -= cost on success, the refilled count otherwise
TokensAfter(cost) == IF Grants(cost) THEN Refilled - cost * Res ELSE Refilled

\* RateLimiter.acquire(cost)
Acquire(cost) ==
    /\ tokens' = TokensAfter(cost)
    /\ last_update' = now
    /\ acq' = [cost |-> cost, ok |-> Grants(cost)]
    /\ UNCHANGED <<rate, capacity>>

\* Bookkeeping of a refill: no empty bucket has been waited on.
NoRefill == [dt |-> 0, ones |-> FALSE]

\* Bookkeeping of a refill.  A call that finds the bucket empty after a wait
\* records the wait; the calls that follow it at the same clock reading keep
\* it, and note whether every one of them asked for one token.
RefillAfter(cost) ==
    IF now > last_update
      THEN IF tokens = 0 THEN [dt |-> now - last_update, ones |-> cost = 1] ELSE NoRefill
      ELSE [refill EXCEPT !.ones = @ /\ cost = 1]

\* A direct call of RateLimiter.acquire, as in test_rate_limiter.  The
\* bookkeeping of what was asked and granted is kept here, for the claims.
LimiterAcquire(cost) ==
    /\ calls < MaxCalls
    /\ calls' = calls + 1
    /\ Acquire(cost)
    /\ maxcost' = IF cost > maxcost THEN cost ELSE maxcost
    /\ granted' = IF Grants(cost) THEN granted + cost ELSE granted
    /\ burst' = IF Grants(cost) THEN burst + cost ELSE burst
    /\ refill' = RefillAfter(cost)
    /\ UNCHANGED <<now, breakerVars, callerVars, streak, bridgeVars>>

\* -------------------------------------------------------- CircuitBreaker
\* __init__: failures = 0, last_failure = None, state = "closed".
CircuitBreakerInit(th, to) ==
    /\ failure_threshold = th
    /\ timeout = to
    /\ failures = 0
    /\ last_failure = None
    /\ state = "closed"

\* Mutant: the comparison is the wrong way round.
CooledDown_Inverted == now - last_failure[1] < timeout

\* time.time() - self.last_failure > self.timeout
CooledDown == now - last_failure[1] > timeout

\* Mutant: an open breaker that has cooled down lets the call through but
\* stays open.
StateOnEntry_Open == state

\* The call raises Exception("Circuit breaker is open") before the try block.
Rejects == state = "open" /\ ~CooledDown

\* self.state when the call goes on to `await func`: an open breaker that
\* has cooled down becomes half-open, any other state is left as it is.
StateOnEntry == IF state = "open" THEN "half-open" ELSE state

\* func returned: a half-open breaker closes and forgets its failures.
StateOnSuccess == IF state = "half-open" THEN "closed" ELSE state

\* Mutant: closing keeps the failure count.
FailuresOnSuccess_Kept == failures

FailuresOnSuccess == IF state = "half-open" THEN 0 ELSE failures

\* func raised an Exception: self.failures += 1; self.last_failure = time.time()
FailuresOnFailure == failures + 1

LastFailureOnFailure == <<now>>

\* Mutant: the breaker opens one failure early.
StateOnFailure_Early == IF FailuresOnFailure + 1 >= failure_threshold THEN "open" ELSE state

\* Mutant: the breaker opens one failure late.
StateOnFailure_Late == IF FailuresOnFailure > failure_threshold THEN "open" ELSE state

\* if self.failures >= self.failure_threshold: self.state = "open"
StateOnFailure == IF FailuresOnFailure >= failure_threshold THEN "open" ELSE state

\* Responses (agno-prototype.py, class Response): what the text is about, the
\* confidence in percent, the success flag.  processing_time and tools_used
\* are carried along by the bridge and never read; they are left out.
NoResponse == [content |-> [kind |-> "none", of |-> "none"], confidence |-> 0, success |-> FALSE]

\* A call event: caller c reached the backend ("pending"), got a value back
\* ("returned") or got an exception ("raised").
Pending(c) == [who |-> c, kind |-> "pending", error |-> "none", response |-> NoResponse]
Returned(c, r) == [who |-> c, kind |-> "returned", error |-> "none", response |-> r]
Raised(c, e) == [who |-> c, kind |-> "raised", error |-> e, response |-> NoResponse]

CallersIdle ==
    /\ pc = [c \in Callers |-> "idle"]
    /\ admitted = [c \in Callers |-> "none"]
    /\ ev = [who |-> 0, kind |-> "none", error |-> "none", response |-> NoResponse]
    /\ invocations = 0
    /\ calls = 0

\* Bookkeeping for the claims: nothing asked, granted or failed yet.
GhostInit ==
    /\ maxcost = 0
    /\ granted = 0
    /\ burst = 0
    /\ streak = 0
    /\ refill = NoRefill

\* Mutant: a rejected call stamps last_failure again.
BreakerEnter_Stamping(c, inv) ==
    /\ pc[c] = "idle"
    /\ IF Rejects
         THEN /\ ev' = Raised(c, "breaker_open")
              /\ last_failure' = <<now>>
              /\ UNCHANGED <<state, pc, admitted, invocations>>
         ELSE /\ state' = StateOnEntry
              /\ pc' = [pc EXCEPT ![c] = "backend"]
              /\ admitted' = [admitted EXCEPT ![c] = StateOnEntry]
              /\ ev' = Pending(c)
              /\ invocations' = inv
              /\ UNCHANGED last_failure
    /\ UNCHANGED <<now, limiterVars, failure_threshold, timeout, failures,
                   ghostVars, bridgeVars>>

\* CircuitBreaker.call(func), up to `await func(...)`; inv is the count of
\* backend invocations to keep if func is invoked.
BreakerEnter(c, inv) ==
    /\ pc[c] = "idle"
    /\ IF Rejects
         THEN /\ ev' = Raised(c, "breaker_open")
              /\ UNCHANGED <<state, pc, admitted, invocations>>
         ELSE /\ state' = StateOnEntry
              /\ pc' = [pc EXCEPT ![c] = "backend"]
              /\ admitted' = [admitted EXCEPT ![c] = StateOnEntry]
              /\ ev' = Pending(c)
              /\ invocations' = inv
    /\ UNCHANGED <<now, limiterVars, failure_threshold, timeout, failures, last_failure,
                   ghostVars, bridgeVars>>

\* A call of CircuitBreaker.call, counted to bound the run.
BreakerCall(c) ==
    /\ calls < MaxCalls
    /\ calls' = calls + 1
    /\ BreakerEnter(c, invocations + 1)

\* func returned a value.
BreakerReturn(c) ==
    /\ pc[c] = "backend"
    /\ state' = StateOnSuccess
    /\ failures' = FailuresOnSuccess
    /\ pc' = [pc EXCEPT ![c] = "idle"]
    /\ admitted' = [admitted EXCEPT ![c] = "none"]
    /\ ev' = Returned(c, NoResponse)
    /\ streak' = 0
    /\ UNCHANGED <<now, limiterVars, failure_threshold, timeout, last_failure,
                   invocations, calls, maxcost, granted, burst, refill, bridgeVars>>

\* func raised an Exception: it is counted and raised again.
BreakerRaise(c) ==
    /\ pc[c] = "backend"
    /\ failures' = FailuresOnFailure
    /\ last_failure' = LastFailureOnFailure
    /\ state' = StateOnFailure
    /\ pc' = [pc EXCEPT ![c] = "idle"]
    /\ admitted' = [admitted EXCEPT ![c] = "none"]
    /\ ev' = Raised(c, "backend")
    /\ streak' = streak + 1
    /\ UNCHANGED <<now, limiterVars, failure_threshold, timeout,
                   invocations, calls, maxcost, granted, burst, refill, bridgeVars>>

\* The task was cancelled while suspended in func.  asyncio.CancelledError is
\* a BaseException (Python >= 3.8, setup.py:36): `except Exception` does not
\* catch it, so neither branch of the breaker runs.
BreakerCancel(c) ==
    /\ pc[c] = "backend"
    /\ pc' = [pc EXCEPT ![c] = "idle"]
    /\ admitted' = [admitted EXCEPT ![c] = "none"]
    /\ ev' = Raised(c, "cancelled")
    /\ UNCHANGED <<now, limiterVars, breakerVars, invocations, calls,
                   ghostVars, bridgeVars>>

\* ------------------------------------------------------ AgentOSClient
\* Mutant: the buffer is flushed one sample late.
RecordMetric_Late(buf, name) ==
    LET b == Append(buf, name)
    IN  IF Len(b) > FlushSize THEN <<>> ELSE b

\* record_metric: append the sample, then flush (clear) a buffer that holds
\* FlushSize samples or more.
RecordMetric(buf, name) ==
    LET b == Append(buf, name)
    IN  IF Len(b) >= FlushSize THEN <<>> ELSE b

\* A direct call of AgentOSClient.record_metric(name, value).
Record(name) ==
    /\ calls < MaxRecords
    /\ calls' = calls + 1
    /\ metrics_buffer' = RecordMetric(metrics_buffer, name)
    /\ UNCHANGED <<now, limiterVars, breakerVars, callerVars, ghostVars,
                   hash, cache, owner, cache_ttl, trace_id, request_count, error_count,
                   total_latency, msg, start_time, got, report>>

\* ---------------------------------------------------- HybridAgentBridge
\* Message contents.  The user_id of a message is its caller.
Contents == {"refund", "track"}

\* hash(message.content): str hashes are salted per process, so the hash is
\* some function of the content; equal contents have equal hashes, different
\* contents may or may not.
PlainHash == [x \in Contents |-> x]
Hashes == {PlainHash, [x \in Contents |-> "refund"]}

\* What each caller sends besides the content: its own user_id and metadata.
MetadataOf == [c \in Callers |-> IF c = 1 THEN "web" ELSE "api"]
Request(c, content) == [content |-> content, user_id |-> c, metadata |-> MetadataOf[c]]

\* Mutant: the key is namespaced by the requester.
CacheKey_PerUser(message) ==
    IF message.user_id = 1
      THEN hash[message.content]
      ELSE [refund |-> "refund@2", track |-> "track@2"][hash[message.content]]

\* _get_cache_key
CacheKey(message) == hash[message.content]

NoCache == [k \in {} |-> NoResponse]
\* Bookkeeping for the claims: no entry, no owner.  An entry stored by a direct
\* call of _update_cache answers no request: its owner is 0.
NoOwner == [k \in {} |-> 0]

\* What a call of a cache helper did: _update_cache(key, response), or
\* _check_cache(key) and whether it returned a Response (found) or None.
NoLookup == [op |-> "none", key |-> "none", found |-> FALSE, response |-> NoResponse]
NoMessage == [content |-> "none", user_id |-> 0, metadata |-> "none"]

\* What a facade call returned: get_metrics its dict, health_check its status,
\* the breaker component and the same dict.  NoReport: no call yet.
NoMetrics ==
    [requests_total |-> 0, errors_total |-> 0, error_rate |-> <<0, 1>>,
     avg_latency |-> <<0, 1>>, cache_size |-> 0, rate_limiter_tokens |-> 0,
     circuit_breaker_state |-> "none"]
NoReport == [op |-> "none", status |-> "none", circuit_breaker |-> "none", metrics |-> NoMetrics]

\* __init__: empty cache, counters at 0; AgentOSClient: empty buffer, no trace.
BridgeInit(h, ttl) ==
    /\ hash = h
    /\ cache = NoCache
    /\ cache_ttl = ttl
    /\ metrics_buffer = <<>>
    /\ trace_id = None
    /\ request_count = 0
    /\ error_count = 0
    /\ total_latency = 0
    /\ msg = [c \in Callers |-> NoMessage]
    /\ start_time = [c \in Callers |-> 0]
    /\ got = NoLookup
    /\ report = NoReport
    /\ owner = NoOwner

\* get_metrics: the dict it returns.  The two quotients are kept as
\* <<numerator, denominator>>; agent_metrics is the backend's own dict and is
\* left out.
Max2(a, b) == IF a >= b THEN a ELSE b

Metrics ==
    [requests_total |-> request_count,
     errors_total |-> error_count,
     error_rate |-> <<error_count, Max2(request_count, 1)>>,
     avg_latency |-> IF request_count > 0 THEN <<total_latency, request_count>> ELSE <<0, 1>>,
     cache_size |-> Cardinality(DOMAIN cache),
     rate_limiter_tokens |-> tokens,
     circuit_breaker_state |-> state]

\* Mutant: a half-open breaker is reported as degraded too.
HealthStatus_ClosedOnly == IF state = "closed" THEN "healthy" ELSE "degraded"

\* health_check: "healthy" if self.circuit_breaker.state != "open" else "degraded"
HealthStatus == IF state # "open" THEN "healthy" ELSE "degraded"

MetricsReport == [op |-> "metrics", status |-> "none", circuit_breaker |-> "none", metrics |-> Metrics]
HealthReport == [op |-> "health", status |-> HealthStatus, circuit_breaker |-> state, metrics |-> Metrics]

\* Mutant: reading the token count brings the bucket up to date first.
GetMetrics_Refreshing ==
    /\ tokens' = Refilled
    /\ last_update' = now
    /\ report' = MetricsReport
    /\ UNCHANGED <<now, rate, capacity, acq, breakerVars, callerVars, calls, ghostVars,
                   hash, cache, owner, cache_ttl, metrics_buffer, trace_id,
                   request_count, error_count, total_latency, msg, start_time, got>>

\* get_metrics(): reads, and changes nothing.
GetMetrics ==
    /\ report' = MetricsReport
    /\ UNCHANGED <<now, limiterVars, breakerVars, callerVars, calls, ghostVars,
                   hash, cache, owner, cache_ttl, metrics_buffer, trace_id,
                   request_count, error_count, total_latency, msg, start_time, got>>

\* health_check(): AgentOSClient.health_check and get_metrics do not suspend,
\* so the whole call is one step; it reads, and changes nothing.
HealthCheck ==
    /\ report' = HealthReport
    /\ UNCHANGED <<now, limiterVars, breakerVars, callerVars, calls, ghostVars,
                   hash, cache, owner, cache_ttl, metrics_buffer, trace_id,
                   request_count, error_count, total_latency, msg, start_time, got>>

\* The Response of IntelligentAgent.execute: its own success Response, or the
\* failed Response its except branch returns.
BackendResponse(content, ok) ==
    IF ok THEN [content |-> [kind |-> "reply", of |-> content],
                confidence |-> BackendConfidence, success |-> TRUE]
          ELSE [content |-> [kind |-> "agent_error", of |-> content],
                confidence |-> 0, success |-> FALSE]

\* The Response execute builds in its except branch: one text for every error.
ErrorResponse ==
    [content |-> [kind |-> "error", of |-> "none"], confidence |-> 0, success |-> FALSE]

\* An execute call that returned a Response: cause tells which path it took.
Answered(c, cause, r) == [who |-> c, kind |-> "returned", error |-> cause, response |-> r]

\* Mutant: an entry is still served when its age equals cache_ttl.
CacheValid_Inclusive(key) == key \in DOMAIN cache /\ now - cache[key].timestamp <= cache_ttl

\* _check_cache: an entry younger than cache_ttl
CacheValid(key) == key \in DOMAIN cache /\ now - cache[key].timestamp < cache_ttl

\* Mutant: a lookup takes the entry out of the cache.
CacheAfterCheck_Taken(key) == [k \in DOMAIN cache \ {key} |-> cache[k]]

\* _check_cache: the cache it leaves; an entry found expired is deleted
CacheAfterCheck(key) ==
    IF key \in DOMAIN cache /\ ~CacheValid(key)
      THEN [k \in DOMAIN cache \ {key} |-> cache[k]]
      ELSE cache

\* _update_cache
CacheAfterUpdate(key, r) ==
    [k \in DOMAIN cache \cup {key} |->
        IF k = key THEN [response |-> r, timestamp |-> now] ELSE cache[k]]

\* Bookkeeping for the claims: the owners of the entries a cache helper leaves.
OwnerAfterCheck(key) == [k \in DOMAIN CacheAfterCheck(key) |-> owner[k]]
OwnerAfterUpdate(key, user_id) ==
    [k \in DOMAIN owner \cup {key} |-> IF k = key THEN user_id ELSE owner[k]]

\* _check_cache(key): what it returns
Lookup(key) ==
    [op |-> "check", key |-> key, found |-> CacheValid(key),
     response |-> IF CacheValid(key) THEN cache[key].response ELSE NoResponse]

\* _update_cache(key, r)
Stored(key, r) == [op |-> "update", key |-> key, found |-> FALSE, response |-> r]

\* A direct call of _check_cache(key).
CheckCache(key) ==
    /\ calls < MaxCalls
    /\ calls' = calls + 1
    /\ got' = Lookup(key)
    /\ cache' = CacheAfterCheck(key)
    /\ owner' = OwnerAfterCheck(key)
    /\ UNCHANGED <<now, limiterVars, breakerVars, callerVars, ghostVars, report,
                   hash, cache_ttl, metrics_buffer, trace_id,
                   request_count, error_count, total_latency, msg, start_time>>

\* A direct call of _update_cache(key, r).
UpdateCache(key, r) ==
    /\ calls < MaxCalls
    /\ calls' = calls + 1
    /\ got' = Stored(key, r)
    /\ cache' = CacheAfterUpdate(key, r)
    /\ owner' = OwnerAfterUpdate(key, 0)
    /\ UNCHANGED <<now, limiterVars, breakerVars, callerVars, ghostVars, report,
                   hash, cache_ttl, metrics_buffer, trace_id,
                   request_count, error_count, total_latency, msg, start_time>>

\* The except branch of execute: count the error, record two samples and
\* return the error Response.
ExecuteError(c, cause) ==
    /\ error_count' = error_count + 1
    /\ metrics_buffer' = RecordMetric(RecordMetric(metrics_buffer, "request_error"), "error_rate")
    /\ ev' = Answered(c, cause, ErrorResponse)
    /\ UNCHANGED <<request_count, total_latency>>

\* execute(message), up to the backend call: start_trace, acquire, the cache
\* lookup and the entry into the breaker.
ExecuteStart(c, content) ==
    /\ pc[c] = "idle"
    /\ calls < BridgeCalls
    /\ calls' = calls + 1
    /\ trace_id' = <<now>>
    /\ Acquire(1)
    /\ IF ~Grants(1)
         THEN \* raise Exception("Rate limit exceeded - please retry")
              /\ ExecuteError(c, "rate_limited")
              /\ UNCHANGED <<cache, owner, got, state, pc, admitted, invocations, msg, start_time>>
         ELSE \* cached_response = self._check_cache(cache_key)
              /\ got' = Lookup(CacheKey(Request(c, content)))
              /\ cache' = CacheAfterCheck(CacheKey(Request(c, content)))
              /\ owner' = OwnerAfterCheck(CacheKey(Request(c, content)))
              /\ IF Lookup(CacheKey(Request(c, content))).found
                   THEN \* return cached_response
                        /\ metrics_buffer' = RecordMetric(metrics_buffer, "cache_hit")
                        /\ ev' = Answered(c, "cache_hit", Lookup(CacheKey(Request(c, content))).response)
                        /\ UNCHANGED <<state, pc, admitted, invocations, msg, start_time,
                                       request_count, error_count, total_latency>>
                   ELSE IF Rejects
                   THEN \* raise Exception("Circuit breaker is open")
                        /\ ExecuteError(c, "breaker_open")
                        /\ UNCHANGED <<state, pc, admitted, invocations, msg, start_time>>
                   ELSE /\ state' = StateOnEntry
                        /\ pc' = [pc EXCEPT ![c] = "backend"]
                        /\ admitted' = [admitted EXCEPT ![c] = StateOnEntry]
                        /\ invocations' = invocations + 1
                        /\ msg' = [msg EXCEPT ![c] = Request(c, content)]
                        /\ start_time' = [start_time EXCEPT ![c] = now]
                        /\ ev' = Pending(c)
                        /\ UNCHANGED <<metrics_buffer, request_count, error_count, total_latency>>
    /\ UNCHANGED <<now, failure_threshold, timeout, failures, last_failure,
                   ghostVars, report, hash, cache_ttl>>

\* The caller's call is over: nothing of it is kept.
CallerDone(c) ==
    /\ pc' = [pc EXCEPT ![c] = "idle"]
    /\ admitted' = [admitted EXCEPT ![c] = "none"]
    /\ msg' = [msg EXCEPT ![c] = NoMessage]
    /\ start_time' = [start_time EXCEPT ![c] = 0]

\* The backend returned a Response (successful or not): the breaker's success
\* branch, _update_cache, the success counters and three samples.
BackendReturn(c, ok) ==
    /\ pc[c] = "backend"
    /\ state' = StateOnSuccess
    /\ failures' = FailuresOnSuccess
    /\ cache' = CacheAfterUpdate(CacheKey(msg[c]), BackendResponse(msg[c].content, ok))
    /\ got' = Stored(CacheKey(msg[c]), BackendResponse(msg[c].content, ok))
    /\ owner' = OwnerAfterUpdate(CacheKey(msg[c]), msg[c].user_id)
    /\ request_count' = request_count + 1
    /\ total_latency' = total_latency + (now - start_time[c])
    /\ metrics_buffer' = RecordMetric(RecordMetric(RecordMetric(metrics_buffer,
                             "request_success"), "response_time"), "confidence")
    /\ ev' = Answered(c, "none", BackendResponse(msg[c].content, ok))
    /\ CallerDone(c)
    /\ UNCHANGED <<now, limiterVars, failure_threshold, timeout, last_failure,
                   invocations, calls, ghostVars, report,
                   hash, cache_ttl, trace_id, error_count>>

\* The backend raised an Exception: the breaker's failure branch, then the
\* except branch of execute.
BackendRaise(c) ==
    /\ pc[c] = "backend"
    /\ failures' = FailuresOnFailure
    /\ last_failure' = LastFailureOnFailure
    /\ state' = StateOnFailure
    /\ ExecuteError(c, "backend_error")
    /\ CallerDone(c)
    /\ UNCHANGED <<now, limiterVars, failure_threshold, timeout,
                   invocations, calls, ghostVars, report,
                   hash, cache, owner, cache_ttl, trace_id, got>>

\* The task running execute was cancelled while suspended in the backend (by
\* its caller, or by asyncio.wait_for on a timeout): CancelledError passes
\* both `except Exception` clauses and leaves execute as a raised error.
BackendCancel(c) ==
    /\ pc[c] = "backend"
    /\ ev' = Raised(c, "cancelled")
    /\ CallerDone(c)
    /\ UNCHANGED <<now, limiterVars, breakerVars, invocations, calls, ghostVars, report,
                   hash, cache, owner, cache_ttl, metrics_buffer, trace_id,
                   request_count, error_count, total_latency, got>>

\* ------------------------------------------------- the limiter on its own
InitLimiter ==
    /\ now = 0
    /\ \E r \in 0..MaxRate, c \in 0..MaxCapacity : RateLimiterInit(r, c)
    /\ CircuitBreakerInit(1, 0)
    /\ CallersIdle
    /\ GhostInit
    /\ BridgeInit(PlainHash, 0)

NextLimiter ==
    \/ Tick
    \/ \E cost \in 1..MaxCost : LimiterAcquire(cost)

SpecLimiter == InitLimiter /\ [][NextLimiter]_vars

\* --------------------------------- the limiter under a clock that is set back
\* time.time() is the wall clock: an adjustment can set it back between two
\* calls.
SetBack ==
    /\ now > 0
    /\ now' = now - 1
    /\ burst' = 0
    /\ UNCHANGED <<limiterVars, breakerVars, callerVars, calls, maxcost, granted, streak,
                   refill, bridgeVars>>

NextClock ==
    \/ NextLimiter
    \/ SetBack

SpecClock == InitLimiter /\ [][NextClock]_vars

\* ------------------------------------ the limiter, built from any capacity
\* RateLimiter.__init__ takes the capacity it is given, negative or not.
InitUnchecked ==
    /\ now = 0
    /\ \E r \in 0..MaxRate, c \in -1..MaxCapacity : RateLimiterInit(r, c)
    /\ CircuitBreakerInit(1, 0)
    /\ CallersIdle
    /\ GhostInit
    /\ BridgeInit(PlainHash, 0)

SpecUnchecked == InitUnchecked /\ [][NextLimiter]_vars

\* ------------------------------------------------- the breaker on its own
\* Concurrent tasks calling one CircuitBreaker.
InitBreaker ==
    /\ now = 0
    /\ RateLimiterInit(0, 0)
    /\ \E th \in 1..MaxThreshold, to \in 0..MaxTimeout : CircuitBreakerInit(th, to)
    /\ CallersIdle
    /\ GhostInit
    /\ BridgeInit(PlainHash, 0)

NextBreaker ==
    \/ Tick
    \/ \E c \in Callers : BreakerCall(c)
    \/ \E c \in Callers : BreakerReturn(c)
    \/ \E c \in Callers : BreakerRaise(c)
    \/ \E c \in Callers : BreakerCancel(c)

SpecBreaker == InitBreaker /\ [][NextBreaker]_vars

\* ------------------------------------------- the breaker and a recovery
\* The backend fails or is cancelled only during the first MaxCalls calls, and
\* early enough for the cool-down to end on the modelled clock; from then on
\* every call that reaches the backend returns.  Calls keep coming (they and
\* their invocations are no longer counted), the clock keeps moving, and a
\* suspended handler returns in the end.
RecoveredCall(c) ==
    /\ calls = MaxCalls
    /\ BreakerEnter(c, invocations)
    /\ UNCHANGED calls

RecoveryRaise(c) ==
    /\ calls < MaxCalls
    /\ now + timeout < MaxTime
    /\ BreakerRaise(c)

RecoveryCancel(c) ==
    /\ calls < MaxCalls
    /\ BreakerCancel(c)

NextRecovery ==
    \/ Tick
    \/ \E c \in Callers : BreakerCall(c)
    \/ \E c \in Callers : RecoveredCall(c)
    \/ \E c \in Callers : BreakerReturn(c)
    \/ \E c \in Callers : RecoveryRaise(c)
    \/ \E c \in Callers : RecoveryCancel(c)

SpecRecovery ==
    /\ InitBreaker
    /\ [][NextRecovery]_vars
    /\ WF_vars(Tick)
    /\ \A c \in Callers : WF_vars(RecoveredCall(c))
    /\ \A c \in Callers : WF_vars(BreakerReturn(c))

\* ----------------------------------------- the telemetry buffer on its own
\* record_metric called directly on one AgentOSClient.
InitMetrics ==
    /\ now = 0
    /\ RateLimiterInit(0, 0)
    /\ CircuitBreakerInit(1, 0)
    /\ CallersIdle
    /\ GhostInit
    /\ BridgeInit(PlainHash, 0)

NextMetrics == \E name \in {"request_success", "request_error"} : Record(name)

SpecMetrics == InitMetrics /\ [][NextMetrics]_vars

\* --------------------------------------------------- the cache on its own
\* _update_cache and _check_cache called directly on one bridge; what is
\* stored under a key is a Response of the backend to that content.
InitCache ==
    /\ now = 0
    /\ RateLimiterInit(0, 0)
    /\ CircuitBreakerInit(1, 0)
    /\ CallersIdle
    /\ GhostInit
    /\ \E ttl \in 0..BridgeTTL : BridgeInit(PlainHash, ttl)

NextCache ==
    \/ Tick
    \/ \E c \in Callers, content \in Contents, ok \in BOOLEAN :
           UpdateCache(CacheKey(Request(c, content)), BackendResponse(content, ok))
    \/ \E c \in Callers, content \in Contents : CheckCache(CacheKey(Request(c, content)))

SpecCache == InitCache /\ [][NextCache]_vars

\* ------------------------------------------------------------ the bridge
\* Concurrent tasks calling execute on one HybridAgentBridge.
Init ==
    /\ now = 0
    /\ RateLimiterInit(MaxRate, MaxCapacity)
    /\ CircuitBreakerInit(BridgeThreshold, BridgeTimeout)
    /\ CallersIdle
    /\ GhostInit
    /\ \E h \in Hashes : BridgeInit(h, BridgeTTL)

BridgeTick == now < BridgeTime /\ Tick

Next ==
    \/ BridgeTick
    \/ \E c \in Callers, content \in Contents : ExecuteStart(c, content)
    \/ \E c \in Callers : BackendReturn(c, TRUE)
    \/ \E c \in Callers : BackendReturn(c, FALSE)
    \/ \E c \in Callers : BackendRaise(c)
    \/ \E c \in Callers : BackendCancel(c)

Spec == Init /\ [][Next]_vars

\* ------------------------------------------------ the bridge and its facade
\* get_metrics and health_check called between the steps of execute calls, on
\* a bridge whose breaker opens at the first failure and cools down at once.
InitFacade ==
    /\ now = 0
    /\ RateLimiterInit(MaxRate, MaxCapacity)
    /\ CircuitBreakerInit(1, 0)
    /\ CallersIdle
    /\ GhostInit
    /\ BridgeInit(PlainHash, BridgeTTL)

NextFacade ==
    \/ now < FacadeTime /\ Tick
    \/ \E c \in Callers, content \in Contents : calls < FacadeCalls /\ ExecuteStart(c, content)
    \/ \E c \in Callers : BackendReturn(c, TRUE)
    \/ \E c \in Callers : BackendReturn(c, FALSE)
    \/ \E c \in Callers : BackendRaise(c)
    \/ \E c \in Callers : BackendCancel(c)
    \/ GetMetrics
    \/ HealthCheck

SpecFacade == InitFacade /\ [][NextFacade]_vars

\* ========================================================== RateLimiter claims
\* C8: with rate >= 0, capacity >= 0 and a clock that does not run backwards,
\* 0 <= tokens <= capacity after every acquire, whatever the costs.
C8_TokensInRange == 0 <= tokens /\ tokens <= capacity * Res

\* A refill has been cut off at the capacity and the bucket then drained to 0.
C8_Witness ==
    /\ acq.ok
    /\ acq.cost = capacity
    /\ tokens = 0
    /\ rate > 0
    /\ last_update > 0

\* C9: acquire(cost) returns true and takes cost tokens exactly when the count
\* after the refill is at least cost; otherwise it returns false and leaves the
\* refilled count as it is.
C9_AcquireExact ==
    [][calls' = calls + 1 =>
         LET t == Min2(capacity * Res, tokens + (now - last_update) * rate)
             n == acq'.cost * Res
         IN  /\ acq'.ok = (t >= n)
             /\ tokens' = IF t >= n THEN t - n ELSE t
             /\ last_update' = now]_vars

\* An acquire(2) has been refused with tokens left in the bucket.
C9_Witness ==
    /\ ~acq.ok
    /\ acq.cost = 2
    /\ tokens > 0
    /\ last_update = now

\* C10: no more than capacity tokens are handed out without the clock moving,
\* so after C successful acquire(1) calls in a row at one clock reading the
\* next acquire(1) is refused; and with rate = 0, of any number of acquire(1)
\* calls exactly the first C succeed, whatever time passes between them.
C10_BurstAndDrain ==
    /\ burst <= capacity
    /\ (burst = capacity /\ acq.cost # 0 /\ last_update = now => tokens < Res)
    /\ (rate = 0 /\ maxcost <= 1 => granted = Min2(calls, capacity))

\* Rate 0, capacity 2, only acquire(1) calls: two were granted, time has
\* passed, and the call after them has been refused.
C10_Witness ==
    /\ rate = 0
    /\ capacity = 2
    /\ maxcost = 1
    /\ calls > capacity + 1
    /\ granted = capacity
    /\ ~acq.ok
    /\ now > 0

\* C11: when a bucket that was emptied is next asked after a wait of dt
\* seconds, it is refilled by min(capacity, dt * rate) tokens; of the
\* acquire(1) calls made back to back from there, exactly the first
\* floor(min(capacity, dt * rate)) succeed.
C11_RefillAfterEmpty ==
    (refill.dt > 0 /\ refill.ones /\ last_update = now) =>
        LET added == Min2(capacity * Res, refill.dt * rate)
        IN  /\ tokens + burst * Res = added
            /\ burst <= added \div Res
            /\ (~acq.ok => burst = added \div Res)

\* Rate 1, capacity 2: the bucket was emptied, 1.5 s went by, one acquire(1)
\* was granted and the next one refused.
C11_Witness ==
    /\ rate = 1
    /\ capacity = 2
    /\ refill.dt = 3
    /\ refill.ones
    /\ last_update = now
    /\ burst = 1
    /\ ~acq.ok
    /\ tokens = 1

\* ======================================================= CircuitBreaker claims
\* The calls suspended in the backend that went in as trials: they passed the
\* breaker while it was half-open (or turned it half-open themselves).
Trials == {c \in Callers : pc[c] = "backend" /\ admitted[c] = "half-open"}

\* Steps of the breaker, told from the event they leave.
Completes(c) == pc[c] = "backend" /\ pc'[c] = "idle"
Succeeds(c) == Completes(c) /\ ev' = Returned(c, ev'.response)
Fails(c) == Completes(c) /\ ev' = Raised(c, "backend")
Starts(c) == pc[c] = "idle" /\ calls' = calls + 1 /\ ev'.who = c

\* C2: while the breaker is half-open at most one trial call is in flight;
\* calls that overlap it are rejected as if the breaker were open.
C2_SingleTrial == Cardinality(Trials) <= 1

\* C3: a failing call that finds the breaker closed adds one to the counter and
\* records the time; the breaker is open after it exactly when the counter has
\* reached failure_threshold, and still closed otherwise.  So failure_threshold
\* failing calls in a row never leave the breaker closed.
C3_OpensAtThreshold ==
    /\ [][\A c \in Callers :
            (Fails(c) /\ state = "closed") =>
                /\ failures' = failures + 1
                /\ last_failure' = <<now>>
                /\ state' = IF failures' >= failure_threshold THEN "open" ELSE "closed"]_vars
    /\ [](streak >= failure_threshold => state # "closed" /\ last_failure # None)

C3_Witness ==
    /\ state = "open"
    /\ failure_threshold = 2
    /\ failures = 2
    /\ streak = 2
    /\ ev.kind = "raised" /\ ev.error = "backend"
    /\ last_failure = <<now>>

\* C4: a call that finds the breaker open with now - last_failure < timeout is
\* rejected with the breaker-open failure and the backend is not invoked; a call
\* that finds it open with now - last_failure > timeout goes to the backend
\* as the trial.
C4_OpenRejects ==
    [][\A c \in Callers :
         (Starts(c) /\ state = "open") =>
            /\ (now - last_failure[1] < timeout =>
                   /\ ev' = Raised(c, "breaker_open")
                   /\ invocations' = invocations
                   /\ pc' = pc
                   /\ state' = "open")
            /\ (now - last_failure[1] > timeout =>
                   /\ pc'[c] = "backend"
                   /\ admitted'[c] = "half-open"
                   /\ invocations' = invocations + 1)]_vars

\* Threshold 3, timeout 1.0 s: a call half a second after the third failure
\* has just been rejected.
C4_Witness ==
    /\ state = "open"
    /\ failure_threshold = 3
    /\ failures = 3
    /\ timeout = Res
    /\ 2 * (now - last_failure[1]) = Res
    /\ ev.kind = "raised" /\ ev.error = "breaker_open"
    /\ invocations = 3

\* C5: a trial call (one that went in as the breaker turned half-open) that
\* succeeds closes the breaker and resets the failure counter to 0.
C5_TrialSuccessCloses ==
    [][\A c \in Callers :
         (Succeeds(c) /\ admitted[c] = "half-open") =>
            (state' = "closed" /\ failures' = 0)]_vars

\* C6: a trial call that fails moves the breaker back to open, stamps the
\* failure with the current time and adds one to the counter, which is not
\* reset.
C6_TrialFailureReopens ==
    [][\A c \in Callers :
         (Fails(c) /\ admitted[c] = "half-open") =>
            /\ state' = "open"
            /\ last_failure' = <<now>>
            /\ failures' = failures + 1]_vars

\* C7: every transition into closed leaves the failure counter at 0, and an
\* open breaker always has a last-failure timestamp.
C7_BreakerInvariant ==
    /\ [](state = "open" => last_failure # None)
    /\ [][(state # "closed" /\ state' = "closed") => failures' = 0]_vars

C7_Witness ==
    /\ state = "closed"
    /\ failures = 0
    /\ last_failure # None
    /\ Cardinality({c \in Callers : pc[c] = "backend"}) = 2

\* ================================================== HybridAgentBridge claims
\* C1: execute never raises.  Whatever ends a call, the caller gets a Response
\* back, and for a rejected admission, an open breaker, a raising backend and
\* a cancelled or timed-out backend call that Response has success = false
\* and confidence = 0.
C1_NeverRaises ==
    /\ ev.kind # "raised"
    /\ (ev.kind = "returned" /\ ev.error \in {"rate_limited", "breaker_open", "backend_error"}
          => ~ev.response.success /\ ev.response.confidence = 0)

\* C12: two execute calls with the same content made within cache_ttl of each
\* other invoke the backend at most once between them, overlapping or not.  So
\* no two such calls are ever suspended in the backend together.
C12_AtMostOnce ==
    \A c, d \in Callers :
        (c # d /\ pc[c] = "backend" /\ pc[d] = "backend"
               /\ msg[c].content = msg[d].content)
            => ~(start_time[c] - start_time[d] < cache_ttl
                   /\ start_time[d] - start_time[c] < cache_ttl)

\* C13: _update_cache(k, r) stores r under k with the current time.
\* _check_cache(k) on an entry younger than cache_ttl returns its Response and
\* leaves the cache alone; on an entry of age cache_ttl or more it returns
\* None and deletes the entry.  Nothing else removes an entry.
C13_CacheTTL ==
    [][/\ (calls' = calls + 1 /\ got'.op = "update") =>
            /\ got'.key \in DOMAIN cache'
            /\ cache'[got'.key] = [response |-> got'.response, timestamp |-> now]
       /\ (calls' = calls + 1 /\ got'.op = "check" /\ got'.key \in DOMAIN cache) =>
            IF now - cache[got'.key].timestamp < cache_ttl
              THEN /\ got'.found
                   /\ got'.response = cache[got'.key].response
                   /\ cache' = cache
              ELSE /\ ~got'.found
                   /\ got'.key \notin DOMAIN cache'
       /\ \A k \in DOMAIN cache :
            k \notin DOMAIN cache' =>
                /\ got'.op = "check" /\ got'.key = k
                /\ now - cache[k].timestamp >= cache_ttl]_vars

\* An entry was looked up when its age was exactly cache_ttl (1 s): the
\* lookup returned None and the entry is gone.
C13_Witness ==
    /\ got.op = "check"
    /\ ~got.found
    /\ got.key \notin DOMAIN cache
    /\ cache_ttl = Res
    /\ now = Res
    /\ calls = 2

\* C14: an admitted execute call whose fingerprint has an entry younger than
\* cache_ttl returns that entry's Response; it leaves the breaker's state,
\* failure counter and last-failure time, the number of backend invocations
\* and the cache as they were, and is not suspended in the backend.
C14_CacheHitFrame ==
    [][\A c \in Callers :
         (/\ Starts(c)
          /\ acq'.ok
          /\ got'.op = "check"
          /\ got'.key \in DOMAIN cache
          /\ now - cache[got'.key].timestamp < cache_ttl) =>
            /\ ev'.kind = "returned"
            /\ ev'.response = cache[got'.key].response
            /\ state' = state
            /\ failures' = failures
            /\ last_failure' = last_failure
            /\ invocations' = invocations
            /\ cache' = cache
            /\ pc' = pc]_vars

\* A call has been answered from the cache after the breaker had counted a
\* failure.
C14_Witness ==
    /\ ev.kind = "returned"
    /\ ev.error = "cache_hit"
    /\ ev.response.success
    /\ got.found
    /\ failures = 1
    /\ last_failure # None
    /\ invocations = 2

\* C15: an execute call that finds less than one token in the refilled
\* bucket returns a failed Response without looking the cache up and without
\* going to the breaker or the backend: the cache, the breaker's state,
\* failure counter and last-failure time and the number of backend
\* invocations are as before, and no call is suspended by it.
C15_RejectedFrame ==
    [][\A c \in Callers :
         (/\ Starts(c)
          /\ Min2(capacity * Res, tokens + (now - last_update) * rate) < Res) =>
            /\ ~acq'.ok
            /\ ev'.kind = "returned"
            /\ ~ev'.response.success
            /\ got' = got
            /\ cache' = cache
            /\ state' = state
            /\ failures' = failures
            /\ last_failure' = last_failure
            /\ invocations' = invocations
            /\ pc' = pc]_vars

\* A call has just been turned away by admission, half a second after the
\* breaker opened: the breaker is as it was.
C15_Witness ==
    /\ ev.kind = "returned"
    /\ ev.error = "rate_limited"
    /\ ~acq.ok
    /\ last_update = now
    /\ state = "open"
    /\ failures = failure_threshold
    /\ now - last_failure[1] = 1

\* C16: only a successful Response of the backend is stored: every entry of
\* the cache holds a Response with success = true, and no call is answered
\* from the cache with a failed Response.
C16_OnlySuccessCached ==
    /\ \A k \in DOMAIN cache : cache[k].response.success
    /\ (ev.kind = "returned" /\ ev.error = "cache_hit" => ev.response.success)

\* C17: a backend call that is cancelled or times out counts as a failure of
\* the breaker, as a raised error does: the counter goes up by one, the time
\* is recorded, the breaker is open once the counter has reached the
\* threshold; and execute returns a failed Response.
C17_CancelCounts ==
    [][\A c \in Callers :
         (Completes(c) /\ ev'.who = c /\ ev'.error = "cancelled") =>
            /\ failures' = failures + 1
            /\ last_failure' = <<now>>
            /\ (failures' >= failure_threshold => state' = "open")
            /\ ev'.kind = "returned"
            /\ ~ev'.response.success]_vars

\* C18: every execute call that returns is counted, whatever its outcome: it
\* adds one to request_count, its latency to total_latency, and one to
\* error_count exactly when its Response has success = false.  (A call that
\* returns without being suspended takes no time on the clock.)
C18_EveryPathCounts ==
    [][\A c \in Callers :
         ((Starts(c) \/ Completes(c)) /\ ev'.who = c /\ ev'.kind = "returned") =>
            /\ request_count' = request_count + 1
            /\ total_latency' = total_latency
                                  + (IF Completes(c) THEN now - start_time[c] ELSE 0)
            /\ error_count' = error_count + (IF ev'.response.success THEN 0 ELSE 1)]_vars

\* ================================================== health and metrics claims
\* A step of get_metrics or health_check: no execute call starts or ends in
\* it and the clock does not move.
FacadeStep == calls' = calls /\ pc' = pc /\ now' = now

\* C19: health_check reports "degraded" exactly when the breaker is open, and
\* "healthy" when it is closed or half-open.
C19_DegradedIffOpen ==
    [][(FacadeStep /\ report'.op = "health") =>
          /\ (report'.status = "degraded" <=> state = "open")
          /\ (report'.status = "healthy" <=> state \in {"closed", "half-open"})
          /\ report'.circuit_breaker = state]_vars

\* health_check has been called with the breaker half-open, a trial call
\* being suspended in the backend, and has answered "healthy".
C19_Witness ==
    /\ report.op = "health"
    /\ report.status = "healthy"
    /\ report.circuit_breaker = "half-open"
    /\ state = "half-open"
    /\ failures = 1
    /\ \E c \in Callers : pc[c] = "backend"

\* C20: get_metrics and health_check change nothing: the token count and the
\* refill time, the breaker's state, counter and last-failure time, the
\* cache, the telemetry buffer and the three counters are after the call what
\* they were before, also while execute calls are suspended in the backend.
C20_FacadeReadOnly ==
    [][FacadeStep =>
          /\ tokens' = tokens
          /\ last_update' = last_update
          /\ state' = state
          /\ failures' = failures
          /\ last_failure' = last_failure
          /\ cache' = cache
          /\ metrics_buffer' = metrics_buffer
          /\ request_count' = request_count
          /\ error_count' = error_count
          /\ total_latency' = total_latency]_vars

\* get_metrics has been called half a second after the bucket was drained,
\* with one call done and another suspended in the backend: the bucket is
\* still as the last acquire left it.
C20_Witness ==
    /\ report.op = "metrics"
    /\ report.metrics.requests_total = 1
    /\ report.metrics.cache_size = 1
    /\ report.metrics.rate_limiter_tokens = 0
    /\ \E c \in Callers : pc[c] = "backend"
    /\ tokens = 0
    /\ now = 1
    /\ last_update = 0

\* ============================================== further claims on the bridge
\* The classes of failure execute answers with a failed Response.
FailureClasses == {"rate_limited", "breaker_open", "backend_error"}

\* C21: the text of a failed Response tells the class of the failure: two calls
\* that failed for different reasons (admission, open breaker, backend) are
\* answered with different contents.
C21_DistinctMessages ==
    [][(/\ ev.kind = "returned" /\ ev.error \in FailureClasses
        /\ ev'.kind = "returned" /\ ev'.error \in FailureClasses
        /\ ev'.error # ev.error) =>
            ev'.response.content # ev.response.content]_vars

\* C22: a negative capacity or a negative TTL is refused at construction, so
\* no limiter that has answered an acquire has a negative capacity, and no
\* cache has a negative cache_ttl.
C22_RejectsNegative ==
    /\ (acq.cost # 0 => capacity >= 0)
    /\ cache_ttl >= 0

\* ============================================= further claims on the breaker
\* C23: once the backend has recovered, a breaker that is open or half-open
\* becomes closed in the end, provided the clock passes the cool-down and
\* calls keep reaching the breaker.
C23_Recovers == (state # "closed" /\ calls = MaxCalls) ~> (state = "closed")

\* The breaker had opened and was closed again by a call made after the
\* recovery.
C23_Witness ==
    /\ calls = MaxCalls
    /\ state = "closed"
    /\ failures = 0
    /\ last_failure # None
    /\ now - last_failure[1] > timeout
    /\ ev.kind = "returned"
    /\ failure_threshold = 2

\* C24: a backend call that returns a Response with success = false counts
\* as a failure of the breaker: the counter goes up by one, the time is
\* recorded, and the breaker is open once the counter has reached the
\* threshold.
C24_FailedReturnCounts ==
    [][\A c \in Callers :
         (/\ Completes(c)
          /\ ev' = Answered(c, "none", ev'.response)
          /\ ev'.response.content.kind = "agent_error"
          /\ ~ev'.response.success) =>
            /\ failures' = failures + 1
            /\ last_failure' = <<now>>
            /\ (failures' >= failure_threshold => state' = "open")]_vars

\* C25: the breaker counts failures in a row: it goes from closed to open only
\* when the last failure_threshold calls that completed all failed.
C25_ConsecutiveOnly ==
    [][(state = "closed" /\ state' = "open") => streak' >= failure_threshold]_vars

\* C26: a call that finds the breaker open with now - last_failure >= timeout,
\* the case of equality included, goes to the backend as the trial and turns
\* the breaker half-open.
C26_TrialAtTimeout ==
    [][\A c \in Callers :
         (Starts(c) /\ state = "open" /\ now - last_failure[1] >= timeout) =>
            /\ pc'[c] = "backend"
            /\ admitted'[c] = "half-open"
            /\ state' = "half-open"]_vars

\* ============================================= further claims on the limiter
\* C27: an acquire at a clock reading earlier than the last refill adds no
\* tokens and takes none away in its refill step: the count before the
\* deduction is the count of before, and the count stays at 0 or above.
C27_ClampsNegativeElapsed ==
    [][(calls' = calls + 1 /\ now < last_update) =>
          /\ tokens' + (IF acq'.ok THEN acq'.cost * Res ELSE 0) = tokens
          /\ tokens' >= 0]_vars

\* ================================================ claims on the telemetry
\* C28: after every record_metric call the buffer holds fewer than 10
\* samples: the call that brings it to 10 empties it, and a call that leaves
\* it below 10 only adds its own sample at the end.
C28_BufferBelowTen ==
    /\ [](Len(metrics_buffer) < 10)
    /\ [][calls' = calls + 1 =>
             IF Len(metrics_buffer) + 1 >= 10
               THEN metrics_buffer' = <<>>
               ELSE /\ Len(metrics_buffer') = Len(metrics_buffer) + 1
                    /\ SubSeq(metrics_buffer', 1, Len(metrics_buffer)) = metrics_buffer]_vars

\* The tenth record has emptied the buffer and the eleventh is held alone.
C28_Witness ==
    /\ calls = 11
    /\ metrics_buffer = <<"request_error">>

\* ============================================ the breaker and overlapping calls
\* C29: only the trial takes the breaker out of half-open: when a call that
\* went in while the breaker was closed completes while it is half-open, by
\* returning or by failing, the breaker stays half-open.
C29_OnlyTrialDecides ==
    [][\A c \in Callers :
         (Completes(c) /\ admitted[c] = "closed" /\ state = "half-open") =>
            state' = "half-open"]_vars

\* C30: with failure_threshold >= 1, whatever the interleaving of the calls:
\* a closed breaker has counted fewer failures than the threshold, and an open
\* or half-open one at least as many.
C30_StateAndCounter ==
    /\ (state = "closed" => failures < failure_threshold)
    /\ (state \in {"open", "half-open"} => failures >= failure_threshold)

\* Threshold 3: a closed breaker with two failures counted and a call in
\* flight, after a success in between.
C30_Witness ==
    /\ failure_threshold = 3
    /\ state = "closed"
    /\ failures = 2
    /\ streak = 0
    /\ \E c \in Callers : pc[c] = "backend"

\* C31: a call rejected because the breaker is open and has not cooled down
\* changes nothing in the breaker: state, failure counter, last-failure time
\* and timeout are as before, so the cool-down ends when it would have ended
\* without the call.
C31_RejectionFrame ==
    [][\A c \in Callers :
         (Starts(c) /\ state = "open" /\ ~(now - last_failure[1] > timeout)) =>
            /\ ev' = Raised(c, "breaker_open")
            /\ state' = state
            /\ failures' = failures
            /\ last_failure' = last_failure
            /\ timeout' = timeout
            /\ failure_threshold' = failure_threshold]_vars

\* Timeout 1 s: a call was rejected exactly one second after the failure that
\* opened the breaker; the failure's time stamp is still the old one.
C31_Witness ==
    /\ ev.kind = "raised" /\ ev.error = "breaker_open"
    /\ state = "open"
    /\ timeout = Res
    /\ now - last_failure[1] = Res
    /\ failures = failure_threshold


\* C32: the cache key is a function of the request content alone.  Every key
\* in the cache is the hash of a content, whoever asked; a call that is
\* admitted while a fresh entry exists for its content is answered with that
\* entry's Response, whichever user_id and metadata the entry was computed
\* for, and it does not reach the backend.
C32_KeyOfContentAlone ==
    /\ [](DOMAIN cache \subseteq {hash[x] : x \in Contents})
    /\ [][\A c \in Callers : \A content \in Contents :
            (/\ Starts(c)
             /\ acq'.ok
             /\ hash[content] \in DOMAIN cache
             /\ now - cache[hash[content]].timestamp < cache_ttl
             /\ \/ msg'[c].content = content
                \/ got'.key = hash[content])
            => /\ ev' = Answered(c, "cache_hit", cache[hash[content]].response)
               /\ pc'[c] = "idle"
               /\ invocations' = invocations]_vars

\* Caller 2 has just been answered from the entry that was computed for the
\* request of caller 1, within the TTL.
C32_Witness ==
    /\ ev.kind = "returned" /\ ev.who = 2 /\ ev.error = "cache_hit"
    /\ got.op = "check" /\ got.found
    /\ got.key \in DOMAIN owner
    /\ owner[got.key] = 1
    /\ MetadataOf[owner[got.key]] # MetadataOf[ev.who]
    /\ ev.response = cache[got.key].response
    /\ ev.response.success

====
